---- MODULE Spec2Model ----
(***************************************************************************)
(* Model of src/app.py: the Logi-Flow team balancer.                       *)
(*                                                                         *)
(* An uploaded sheet (raw_df) is cleaned and scored (clean_and_score_data), *)
(* which also injects the "ghost" goalkeeper, and the "Optimize Teams"     *)
(* handler then runs solve_cohort_v2 on every cohort in sorted order and   *)
(* aggregates the returned rosters in final_roster.                        *)
(*                                                                         *)
(* Python's None is modelled as the empty sequence and a present value v   *)
(* as <<v>>.  A history text is modelled by the set of scoring keywords    *)
(* that occur in it, a team label f"{cohort}_Team_{t+1}" by the pair       *)
(* <<cohort, t + 1>>.                                                      *)
(***************************************************************************)
EXTENDS Integers, Sequences, FiniteSets, TLC

VARIABLES raw_df, df, pc, i, final_roster, results

vars == <<raw_df, df, pc, i, final_roster, results>>

----------------------------------------------------------------------------
(* Bounds of the model and the input values of the uploaded sheet. *)

MaxRows == 3

Names == <<"P1", "P2", "P3", "P4", "P5", "P6", "P7", "P8">>

BirthYears == {2009, 2010}

RawPositions == {"Goalkeeper (GK)", "sweeper"}

\* years of experience and the scoring keywords found in the history text
Experience ==
    {[years_exp |-> 0, history_text |-> {"club"}],
     [years_exp |-> 0, history_text |-> {}],
     [years_exp |-> 50000, history_text |-> {}]}

RawRows ==
    {[birth_year |-> y, position |-> p,
      years_exp |-> e.years_exp, history_text |-> e.history_text] :
        y \in BirthYears, p \in RawPositions, e \in Experience}

----------------------------------------------------------------------------
(* Python values. *)

None == <<>>

Some(v) == <<v>>

Range(s) == {s[k] : k \in DOMAIN s}

Abs(n) == IF n < 0 THEN -n ELSE n

----------------------------------------------------------------------------
(* clean_and_score_data *)

position_cleanup(p) ==
    CASE p = "Goalkeeper (GK)" -> "GK"
      [] p = "GK" -> "GK"
      [] p = "Defender (Left Back/Right Back)" -> "DEF"
      [] p = "Center Back (CB)" -> "DEF"
      [] p = "Midfielder (Defensive Mid/Center Mid)" -> "MID"
      [] p = "Winger (Left Wing/Right Wing)" -> "MID"
      [] p = "Forward (Striker/Center Forward)" -> "FWD"
      [] OTHER -> p

\* str.upper() on the position strings of the model
upper(p) ==
    CASE p = "sweeper" -> "SWEEPER"
      [] p = "gk" -> "GK"
      [] OTHER -> p

assign_cohort(year) ==
    IF year <= 2007 THEN "Group_2007_Earlier"
    ELSE IF 2008 <= year /\ year <= 2009 THEN "Group_2008_2009"
    ELSE "Group_2010_Plus"

calculate_skill(row) ==
    LET text == row.history_text
        score == row.years_exp * 2
    IN  IF "premier" \in text \/ "academy" \in text \/ "club" \in text THEN score + 50
        ELSE IF "varsity" \in text \/ "high school" \in text THEN score + 30
        ELSE IF "ayso" \in text \/ "aysa" \in text THEN score + 20
        ELSE IF "jv" \in text \/ "rec" \in text THEN score + 10
        ELSE score + 15

\* one row after normalisation, cohort assignment and scoring (lines 47-94);
\* of the columns of df, the ones the solver and the cohort loop read
ScoreRow(row) ==
    [name |-> row.name,
     position |-> upper(position_cleanup(row.position)),
     skill_score |-> calculate_skill(row),
     category |-> assign_cohort(row.birth_year)]

ScoreRows(raw) == [k \in 1..Len(raw) |-> ScoreRow(raw[k])]

ghost ==
    [name |-> "GHOST_GK_PLACEHOLDER",
     position |-> "GK",
     skill_score |-> 50,
     category |-> "Group_2010_Plus"]

IsGK(r) == r.position = "GK"

\* faulty variant: the goalkeepers of every cohort are counted
gks_any_cohort(d) == SelectSeq(d, LAMBDA r : IsGK(r))

gks_2010(d) == SelectSeq(d, LAMBDA r : r.category = "Group_2010_Plus" /\ IsGK(r))

GhostNeeded(d) == Len(gks_2010(d)) = 1

clean_and_score_data(raw) ==
    LET d == ScoreRows(raw)
    IN  IF GhostNeeded(d) THEN Append(d, ghost) ELSE d

----------------------------------------------------------------------------
(* solve_cohort_v2: the CP-SAT model, its solutions and the returned value *)

num_teams == 2

all_teams == 0..(num_teams - 1)

all_players(players) == 1..Len(players)

\* the boolean variables x[p, t] (lines 126-128): every 0/1 valuation
Valuations(players) == [all_players(players) \X all_teams -> {0, 1}]

\* sum(f[k] for k in range(lo, hi + 1))
RECURSIVE SumRange(_, _, _)
SumRange(f, lo, hi) == IF lo > hi THEN 0 ELSE f[lo] + SumRange(f, lo + 1, hi)

\* sum(x[p, t] for t in all_teams)
TeamsOf(x, p) == SumRange([t \in all_teams |-> x[p, t]], 0, num_teams - 1)

\* sum(x[p, t] for p in all_players)
TeamSize(x, players, t) ==
    SumRange([p \in all_players(players) |-> x[p, t]], 1, Len(players))

\* faulty variant: a player may be left without a team
OneTeamPerPlayer_AtMost(x, players) == \A p \in all_players(players) : TeamsOf(x, p) <= 1

\* 1. One Team per Player
OneTeamPerPlayer(x, players) == \A p \in all_players(players) : TeamsOf(x, p) = 1

\* faulty variant: the lower bound on the team size is missing
EqualSize_UpperOnly(x, players) ==
    \A t \in all_teams : TeamSize(x, players, t) <= (Len(players) \div num_teams) + 1

\* 2. Equal Size
EqualSize(x, players) ==
    LET target == Len(players) \div num_teams
    IN  \A t \in all_teams :
          /\ TeamSize(x, players, t) >= target
          /\ TeamSize(x, players, t) <= target + 1

unique_positions(players) == {players[p].position : p \in all_players(players)}

pos_indices(players, pos) == {p \in all_players(players) : players[p].position = pos}

\* sum(x[p, t] for p in pos_indices)
PosCount(x, players, pos, t) ==
    SumRange([p \in all_players(players) |->
                IF p \in pos_indices(players, pos) THEN x[p, t] ELSE 0],
             1, Len(players))

\* math.ceil(count / num_teams)
CeilDiv(count, n) == (count + n - 1) \div n

\* faulty variant: only the goalkeepers are balanced
PositionLoop_GKOnly(x, players) ==
    \A pos \in unique_positions(players) \cap {"GK"} :
      LET count == Cardinality(pos_indices(players, pos))
      IN  \A t \in all_teams :
            /\ PosCount(x, players, pos, t) >= count \div num_teams
            /\ PosCount(x, players, pos, t) <= CeilDiv(count, num_teams)

\* 3. Position Loop
PositionLoop(x, players) ==
    \A pos \in unique_positions(players) :
      LET count == Cardinality(pos_indices(players, pos))
          min_per_team == count \div num_teams
      IN  \A t \in all_teams :
            /\ PosCount(x, players, pos, t) >= min_per_team
            /\ PosCount(x, players, pos, t) <= CeilDiv(count, num_teams)

\* faulty variant: the team score counts the players and forgets their skill
t_scores_Unweighted(x, players, t) ==
    SumRange([p \in all_players(players) |-> x[p, t]], 1, Len(players))

\* sum(players[p]['skill_score'] * x[p, t] for p in all_players)
t_scores(x, players, t) ==
    SumRange([p \in all_players(players) |-> players[p].skill_score * x[p, t]],
             1, Len(players))

\* diff = model.NewIntVar(0, 100000, 'diff')
DiffLower == 0

DiffUpper == 100000

\* the value AddAbsEquality forces on diff
DiffOf(x, players) == Abs(t_scores(x, players, 0) - t_scores(x, players, 1))

HardConstraints(x, players) ==
    /\ OneTeamPerPlayer(x, players)
    /\ EqualSize(x, players)
    /\ PositionLoop(x, players)

\* the solutions of the whole model: the hard constraints and diff in its domain
Solutions(players) ==
    {x \in Valuations(players) :
        /\ HardConstraints(x, players)
        /\ DiffOf(x, players) \in DiffLower..DiffUpper}

\* model.Minimize(diff)
Optimal(players) ==
    LET S == Solutions(players)
        D == {DiffOf(x, players) : x \in S}
    IN  {x \in S : \A d \in D : DiffOf(x, players) <= d}

Labelled(player, cohort_name, t) == player @@ [Assigned_Team |-> <<cohort_name, t + 1>>]

\* rosters[t]: the players p with solver.Value(x[p, t]) == 1, in order
RECURSIVE Roster(_, _, _, _, _)
Roster(cohort_name, players, x, t, p) ==
    IF p > Len(players) THEN <<>>
    ELSE (IF x[p, t] = 1 THEN <<Labelled(players[p], cohort_name, t)>> ELSE <<>>)
         \o Roster(cohort_name, players, x, t, p + 1)

\* what solve_cohort_v2 returns for a solver status and valuation (lines 163-173)
ReturnValue(cohort_name, players, status, x) ==
    IF status = "OPTIMAL" \/ status = "FEASIBLE"
    THEN [result |-> Some([t \in all_teams |-> Roster(cohort_name, players, x, t, 1)]),
          skill_diff |-> Some(DiffOf(x, players))]
    ELSE [result |-> None, skill_diff |-> None]

----------------------------------------------------------------------------
(* the "Optimize Teams" handler *)

CohortOrder == <<"Group_2007_Earlier", "Group_2008_2009", "Group_2010_Plus">>

\* sorted(df['category'].unique())
cohorts(d) == SelectSeq(CohortOrder, LAMBDA c : \E k \in DOMAIN d : d[k].category = c)

\* df[df['category'] == cohort]
cohort_data(d, cohort) == SelectSeq(d, LAMBDA r : r.category = cohort)

\* `if result:` -- None is falsy, the rosters dict {0: [...], 1: [...]} is truthy
Truthy(result) == result # None

\* cohort_final: the rosters of the result, flattened
cohort_final(result) == result[1][0] \o result[1][1]

\* faulty variant: a cohort without solution empties what was aggregated so far
Aggregate_ResetOnFailure(final, ret) ==
    IF Truthy(ret.result) THEN final \o cohort_final(ret.result) ELSE <<>>

\* final_roster after one iteration of the cohort loop
Aggregate(final, ret) ==
    IF Truthy(ret.result) THEN final \o cohort_final(ret.result) ELSE final

\* one iteration of the cohort loop with the given solver outcome
Iterate(status, x) ==
    LET cohort == cohorts(df)[i]
        players == cohort_data(df, cohort)
        ret == ReturnValue(cohort, players, status, x)
    IN  /\ final_roster' = Aggregate(final_roster, ret)
        /\ results' = Append(results, [cohort |-> cohort, status |-> status,
                                       x |-> x, ret |-> ret])
        /\ i' = i + 1
        /\ pc' = IF i + 1 > Len(cohorts(df)) THEN "done" ELSE "loop"
        /\ UNCHANGED <<raw_df, df>>

CurrentPlayers == cohort_data(df, cohorts(df)[i])

----------------------------------------------------------------------------

\* the uploaded sheet: row k carries the k-th (distinct) full name
Uploaded == [k \in 1..Len(raw_df) |-> [name |-> Names[k]] @@ raw_df[k]]

Init ==
    /\ \E n \in 1..MaxRows :
         raw_df \in [1..n -> RawRows]
    /\ df = <<>>
    /\ pc = "upload"
    /\ i = 1
    /\ final_roster = <<>>
    /\ results = <<>>

CleanAndScore ==
    /\ pc = "upload"
    /\ df' = clean_and_score_data(Uploaded)
    /\ pc' = "ready"
    /\ UNCHANGED <<raw_df, i, final_roster, results>>

OptimizeTeams ==
    /\ pc = "ready"
    /\ final_roster' = <<>>
    /\ i' = 1
    /\ pc' = "loop"
    /\ UNCHANGED <<raw_df, df, results>>

\* the search ran to completion and proved a minimum
SolveOptimal ==
    /\ pc = "loop"
    /\ \E x \in Optimal(CurrentPlayers) : Iterate("OPTIMAL", x)

\* the search ran to completion and the model has no solution
SolveInfeasible ==
    /\ pc = "loop"
    /\ Solutions(CurrentPlayers) = {}
    /\ Iterate("INFEASIBLE", None)

\* the search was stopped with a solution in hand, its optimality unproven
SolveFeasible ==
    /\ pc = "loop"
    /\ \E x \in Solutions(CurrentPlayers) : Iterate("FEASIBLE", x)

Next == CleanAndScore \/ OptimizeTeams \/ SolveOptimal \/ SolveInfeasible

\* the code sets no search limit: the solver always runs to completion
Spec == Init /\ [][Next]_vars

NextBudget == Next \/ SolveFeasible

\* the solver may also stop under a search budget (status FEASIBLE)
SpecBudget == Init /\ [][NextBudget]_vars

----------------------------------------------------------------------------
(* Vocabulary of the properties: the cohort loop's log, read back.  *)

Entries == Range(results)

\* the player list solve_cohort_v2 was given for a logged cohort
PlayersOf(e) == cohort_data(df, e.cohort)

Returned(e) == e.ret.result # None

RosterOf(e, t) == e.ret.result[1][t]

\* a roster entry without the label the extraction added
Unlabelled(r) ==
    [name |-> r.name, position |-> r.position,
     skill_score |-> r.skill_score, category |-> r.category]

Occurrences(s, v) == Cardinality({k \in DOMAIN s : Unlabelled(s[k]) = v})

RECURSIVE SkillSum(_)
SkillSum(s) == IF s = <<>> THEN 0 ELSE Head(s).skill_score + SkillSum(Tail(s))

PosInRoster(s, pos) == Cardinality({k \in DOMAIN s : s[k].position = pos})

PosInCohort(players, pos) == Cardinality({k \in DOMAIN players : players[k].position = pos})

\* C1: every player of a cohort's input list is in exactly one of the two
\* returned rosters, and the rosters hold nobody else.
C1_Coverage ==
    \A e \in Entries : Returned(e) =>
      LET players == PlayersOf(e)
      IN  /\ \A k \in DOMAIN players :
               Occurrences(RosterOf(e, 0), players[k])
                 + Occurrences(RosterOf(e, 1), players[k]) = 1
          /\ \A t \in all_teams : \A k \in DOMAIN RosterOf(e, t) :
               Unlabelled(RosterOf(e, t)[k]) \in Range(players)

C1_Witness ==
    \E e \in Entries :
      /\ Returned(e)
      /\ Len(PlayersOf(e)) >= 3
      /\ RosterOf(e, 0) # <<>>
      /\ RosterOf(e, 1) # <<>>

\* C2: the two roster sizes of a cohort of size N are floor(N/2) and
\* ceil(N/2) in some order.
C2_SizeBalance ==
    \A e \in Entries : Returned(e) =>
      LET N == Len(PlayersOf(e))
      IN  {Len(RosterOf(e, 0)), Len(RosterOf(e, 1))} = {N \div 2, N - (N \div 2)}

C2_Witness ==
    \E e \in Entries :
      /\ Returned(e)
      /\ Len(PlayersOf(e)) = 3
      /\ Len(RosterOf(e, 0)) = 1
      /\ Len(RosterOf(e, 1)) = 2

\* C3: each roster holds between floor(C/2) and ceil(C/2) players of every
\* position that occurs C times in the cohort, mapped or not.
C3_PositionBalance ==
    \A e \in Entries : Returned(e) =>
      \A pos \in unique_positions(PlayersOf(e)) : \A t \in all_teams :
        LET C == PosInCohort(PlayersOf(e), pos)
            n == PosInRoster(RosterOf(e, t), pos)
        IN  C \div 2 <= n /\ n <= C - (C \div 2)

C3_Witness ==
    \E e \in Entries :
      /\ Returned(e)
      /\ PosInCohort(PlayersOf(e), "SWEEPER") = 2
      /\ PosInCohort(PlayersOf(e), "GK") = 1

\* the two-team assignments that satisfy the assignment, size-balance and
\* position-balance constraints, by brute force
BruteFeasible(players) ==
    {a \in [DOMAIN players -> all_teams] :
        /\ \A t \in all_teams :
             LET n == Cardinality({p \in DOMAIN players : a[p] = t})
             IN  Len(players) \div 2 <= n /\ n <= (Len(players) \div 2) + 1
        /\ \A pos \in unique_positions(players) : \A t \in all_teams :
             LET C == PosInCohort(players, pos)
                 n == Cardinality({p \in DOMAIN players :
                                      a[p] = t /\ players[p].position = pos})
             IN  C \div 2 <= n /\ n <= C - (C \div 2)}

RECURSIVE BruteScore(_, _, _, _)
BruteScore(players, a, t, p) ==
    IF p > Len(players) THEN 0
    ELSE (IF a[p] = t THEN players[p].skill_score ELSE 0) + BruteScore(players, a, t, p + 1)

BruteDiff(players, a) == Abs(BruteScore(players, a, 0, 1) - BruteScore(players, a, 1, 1))

BruteMin(players) ==
    LET D == {BruteDiff(players, a) : a \in BruteFeasible(players)}
    IN  CHOOSE d \in D : \A d2 \in D : d <= d2

\* C4: for a cohort of at most 8 players the returned differential is the
\* brute-force minimum over the assignments satisfying the hard constraints.
C4_Optimality ==
    \A e \in Entries : Len(PlayersOf(e)) <= 8 =>
      e.ret.skill_diff = Some(BruteMin(PlayersOf(e)))

\* C5: a returned differential is the absolute difference of the skill sums
\* of the two returned rosters.
C5_ObjectiveCorrect ==
    \A e \in Entries : Returned(e) =>
      e.ret.skill_diff = Some(Abs(SkillSum(RosterOf(e, 0)) - SkillSum(RosterOf(e, 1))))

C5_Witness ==
    \E e \in Entries :
      /\ Returned(e)
      /\ Len(PlayersOf(e)) >= 3
      /\ e.ret.skill_diff # Some(0)

\* C6: the hard constraints are satisfiable for every cohort, so
\* solve_cohort_v2 returns rosters and never (None, None).
C6_AlwaysSatisfiable ==
    \A e \in Entries : BruteFeasible(PlayersOf(e)) # {} /\ Returned(e)

\* C9: the declared range of diff contains |score(0) - score(1)| of every
\* assignment that satisfies the hard constraints.
C9_BoundWideEnough ==
    \A e \in Entries : \A a \in BruteFeasible(PlayersOf(e)) :
      BruteDiff(PlayersOf(e), a) \in DiffLower..DiffUpper

Size(d, c) == Cardinality({k \in DOMAIN d : d[k].category = c})

GKCount(d, c) == Cardinality({k \in DOMAIN d : d[k].category = c /\ d[k].position = "GK"})

Placeholders(d, c) ==
    Cardinality({k \in DOMAIN d : d[k].category = c /\ d[k].name = "GHOST_GK_PLACEHOLDER"})

Cleaned == pc # "upload"

\* cohort c got exactly one placeholder GK of its own appended
Repaired(c) ==
    /\ Size(df, c) = Size(ScoreRows(Uploaded), c) + 1
    /\ GKCount(df, c) = 2
    /\ Placeholders(df, c) = 1

\* cohort c was left as it was
Untouched(c) ==
    /\ cohort_data(df, c) = cohort_data(ScoreRows(Uploaded), c)
    /\ Placeholders(df, c) = 0

\* C7 as stated: every cohort with exactly one GK gets one placeholder GK of
\* its own, every other cohort gets no player.
C7_RepairPerCohort ==
    Cleaned => \A c \in Range(CohortOrder) :
      IF GKCount(ScoreRows(Uploaded), c) = 1 THEN Repaired(c) ELSE Untouched(c)

\* C7 amended: the cohort Group_2010_Plus gets one placeholder GK of its own
\* when it has exactly one GK; in every other case no player is added to a
\* cohort, whatever its GK count.
C7_Repair2010Only ==
    Cleaned => \A c \in Range(CohortOrder) :
      IF c = "Group_2010_Plus" /\ GKCount(ScoreRows(Uploaded), c) = 1
      THEN Repaired(c) ELSE Untouched(c)

C7_Witness ==
    /\ Cleaned
    /\ GKCount(ScoreRows(Uploaded), "Group_2010_Plus") = 1
    /\ Placeholders(df, "Group_2010_Plus") = 1
    /\ GKCount(ScoreRows(Uploaded), "Group_2008_2009") = 1
    /\ GKCount(df, "Group_2008_2009") = 1

RECURSIVE SolvedRosters(_)
SolvedRosters(log) ==
    IF log = <<>> THEN <<>>
    ELSE (IF Head(log).ret.result # None
          THEN Head(log).ret.result[1][0] \o Head(log).ret.result[1][1]
          ELSE <<>>) \o SolvedRosters(Tail(log))

\* what solve_cohort_v2 can return for a cohort solved on its own
\* (the model has a minimum exactly when it has a solution)
AloneOutcomes(cohort, players) ==
    LET O == Optimal(players)
    IN  IF O = {}
        THEN {ReturnValue(cohort, players, "INFEASIBLE", None)}
        ELSE {ReturnValue(cohort, players, "OPTIMAL", x) : x \in O}

\* C8: a cohort without solution stops nothing: every cohort is processed,
\* the failing one adds no player to final_roster, every result is one the
\* cohort gives when solved alone, and final_roster is the rosters of the
\* solved cohorts.
C8_FailureIsolation ==
    (pc = "loop" \/ pc = "done") =>
      /\ Len(results) = i - 1
      /\ pc = "done" <=> Len(results) = Len(cohorts(df))
      /\ \A k \in DOMAIN results :
           /\ results[k].cohort = cohorts(df)[k]
           /\ results[k].ret \in AloneOutcomes(results[k].cohort, PlayersOf(results[k]))
           /\ ~Returned(results[k]) =>
                \A j \in DOMAIN final_roster : final_roster[j].category # results[k].cohort
      /\ final_roster = SolvedRosters(results)

C8_Witness ==
    /\ pc = "done"
    /\ Len(results) = 2
    /\ ~Returned(results[1])
    /\ Returned(results[2])
    /\ final_roster # <<>>

\* C10: a result obtained with status FEASIBLE differs from the result the
\* same assignment gives with status OPTIMAL.
C10_NonOptimalFlagged ==
    \A e \in Entries : e.status = "FEASIBLE" =>
      e.ret # ReturnValue(e.cohort, PlayersOf(e), "OPTIMAL", e.x)

====
